---- MODULE Spec2Model ----
(***************************************************************************)
(* grax.create_network (src/core.py): builds an undirected graph from a    *)
(* list of polylines and splits edges where segments of two different      *)
(* lines intersect.                                                         *)
(*                                                                          *)
(* Coordinates are exact rationals kept as homogeneous integer triples     *)
(* <<X, Y, W>> (the point X/W, Y/W, W > 0, gcd 1), so that the point       *)
(* shapely returns for two crossing segments can itself be an end point of *)
(* a segment tested for a later line pair.  Node ids are tuples:           *)
(* <<"r", line, local>> is the string r_<line>_<local> and                 *)
(* <<"is", i, j, k>> is the string is_<i>_<j>_<k>; the two formats are     *)
(* injective on their integer fields, as the tuples are.                   *)
(***************************************************************************)
EXTENDS Integers, Sequences, FiniteSets

\* ------------------------------------------------------------------ bounds
\* total number of vertices of the input lines
MaxVertices == 6

\* the y coordinates and the x steps of the input vertices
Ys == {0, 1}

Strides == {1, 2}

\* ------------------------------------------------------- exact arithmetic
Abs(n) == IF n < 0 THEN -n ELSE n

Sign(n) == IF n > 0 THEN 1 ELSE IF n < 0 THEN -1 ELSE 0

RECURSIVE GCD(_, _)
GCD(a, b) == IF b = 0 THEN a ELSE GCD(b, a % b)

\* the point <<X, Y, W>> with W > 0 and the three numbers coprime
Norm(P) ==
    LET g == GCD(GCD(Abs(P[1]), Abs(P[2])), Abs(P[3]))
        s == IF P[3] < 0 THEN -g ELSE g
    IN  <<P[1] \div s, P[2] \div s, P[3] \div s>>

Cross3(A, B) ==
    << A[2] * B[3] - A[3] * B[2],
       A[3] * B[1] - A[1] * B[3],
       A[1] * B[2] - A[2] * B[1] >>

\* orientation of C against the directed line A -> B (all W > 0)
Orient(A, B, C) ==
    LET n == Cross3(A, B)
    IN  Sign(n[1] * C[1] + n[2] * C[2] + n[3] * C[3])

\* lexicographic order on points (x, then y)
PLess(A, B) ==
    \/ A[1] * B[3] < B[1] * A[3]
    \/ /\ A[1] * B[3] = B[1] * A[3]
       /\ A[2] * B[3] < B[2] * A[3]

PMin(A, B) == IF PLess(B, A) THEN B ELSE A

PMax(A, B) == IF PLess(A, B) THEN B ELSE A

\* ------------------------------------------- shapely: LineString.intersection
Empty == [kind |-> "empty"]

Point(P) == [kind |-> "point", p |-> P]

Overlap == [kind |-> "line"]

\* intersection of the closed segments A-B and C-D
SegIntersection(A, B, C, D) ==
    LET o1 == Orient(A, B, C)
        o2 == Orient(A, B, D)
        o3 == Orient(C, D, A)
        o4 == Orient(C, D, B)
    IN  IF o1 = 0 /\ o2 = 0 /\ o3 = 0 /\ o4 = 0
        THEN LET s == PMax(PMin(A, B), PMin(C, D))
                 e == PMin(PMax(A, B), PMax(C, D))
             IN  IF PLess(e, s) THEN Empty
                 ELSE IF s = e THEN Point(s)
                 ELSE Overlap
        ELSE IF o1 * o2 <= 0 /\ o3 * o4 <= 0
             THEN Point(Norm(Cross3(Cross3(A, B), Cross3(C, D))))
             ELSE Empty

\* What line1.intersection(line2) returns.  A segment whose two end points
\* coincide is not a valid LineString, and what the geometry library makes
\* of it depends on its build: it either drops the collapsed line (nothing
\* is found) or treats it as the point it covers.
Builds == {"collapse", "touch"}

Intersection(A, B, C, D, build) ==
    IF (A = B \/ C = D) /\ build = "collapse"
    THEN Empty
    ELSE SegIntersection(A, B, C, D)

\* ------------------------------------------------------ networkx.Graph
\* a graph: node id -> attributes, and a set of undirected edges {u, v}
NoAttr == <<>>

EmptyGraph == [nodes |-> <<>>, edges |-> {}]

HasNode(g, n) == n \in DOMAIN g.nodes

AddNode(g, n, p) ==
    [g EXCEPT !.nodes = [m \in DOMAIN g.nodes \cup {n} |->
                            IF m = n THEN p ELSE g.nodes[m]]]

\* add_edge also creates an end point that is no node yet, without attributes
AddEdge(g, u, v) ==
    [nodes |-> [m \in DOMAIN g.nodes \cup {u, v} |->
                   IF m \in DOMAIN g.nodes THEN g.nodes[m] ELSE NoAttr],
     edges |-> g.edges \cup {{u, v}}]

HasEdge(g, u, v) == {u, v} \in g.edges

RemoveEdge(g, u, v) == [g EXCEPT !.edges = g.edges \ {{u, v}}]

Neighbours(g, n) == {m \in DOMAIN g.nodes : {n, m} \in g.edges}

\* ------------------------------------------------------------ node ids
LineNodeId(g_line_id, node_id) == <<"r", g_line_id, node_id>>

IntersectNodeId(i_, j_, k) == <<"is", i_, j_, k>>

\* ------------------------------------------------------------ the input
\* One polyline: n >= 1 vertices with local ids 1..n (as digitize_shape
\* numbers them), vertex k at x = (k-1)*stride and a y of Ys.
LineOf(stride, ys) ==
    [k \in 1..Len(ys) |-> [id |-> k, p |-> <<(k - 1) * stride, ys[k], 1>>]]

LinesOfLen(n) == { LineOf(st, ys) : st \in Strides, ys \in [1..n -> Ys] }

\* the lists of polylines with at most b vertices in all
RECURSIVE ListsUpTo(_)
ListsUpTo(b) ==
    {<<>>} \cup
    UNION { { <<l>> \o rest : l \in LinesOfLen(n), rest \in ListsUpTo(b - n) }
            : n \in 1..b }

Inputs == ListsUpTo(MaxVertices) \ {<<>>}

VARIABLES
    L,                      \* the argument of create_network
    build,                  \* the build of the geometry library
    Lst,                    \* the working sequences, rows [id, p]
    G,                      \* the graph under construction
    graph_,                 \* self.graph_
    pc,                     \* "part1", "pairs", "seg", "done", "error"
    i, j, i1, i2,           \* the four loop variables of PART 2
    intersection_id,
    item1_coords, item2_coords,
    item1_coords_pointID, item2_coords_pointID,
    xlog,                   \* history: the crossings materialized so far
    added                   \* history: number of G.add_node calls so far

vars == <<L, build, Lst, G, graph_, pc, i, j, i1, i2, intersection_id,
          item1_coords, item2_coords, item1_coords_pointID,
          item2_coords_pointID, xlog, added>>

None == [kind |-> "None"]

\* the state when create_network is entered with one of the given inputs
Entered(inputs) ==
    /\ L \in inputs
    /\ build \in Builds
    /\ Lst = <<>>
    /\ G = EmptyGraph
    /\ graph_ = None
    /\ pc = "part1"
    /\ i = 0 /\ j = 0 /\ i1 = 0 /\ i2 = 0
    /\ intersection_id = 0
    /\ item1_coords = <<>> /\ item2_coords = <<>>
    /\ item1_coords_pointID = <<>> /\ item2_coords_pointID = <<>>
    /\ xlog = <<>>
    /\ added = 0

Init == Entered(Inputs)

\* two lines of three vertices and one of two, in any order
ThreeLines ==
    LET two == LinesOfLen(2)
        three == LinesOfLen(3)
    IN  (three \X three \X two) \cup (three \X two \X three)
            \cup (two \X three \X three)

InitThree == Entered(ThreeLines)

\* --------------------------------------------------------------- PART 1
\* rows 1..k of one line added as nodes
RECURSIVE AddLineNodes(_, _, _, _)
AddLineNodes(g, line, g_line_id, k) ==
    IF k = 0 THEN g
    ELSE AddNode(AddLineNodes(g, line, g_line_id, k - 1),
                 LineNodeId(g_line_id, line[k].id), line[k].p)

\* the row ids of one line rewritten to the prefixed ids
Renamed(line, g_line_id) ==
    [k \in 1..Len(line) |->
        [id |-> LineNodeId(g_line_id, line[k].id), p |-> line[k].p]]

\* faulty variant: every row joined to the first row instead of the previous one
AddLineEdgesStar(g, row, k) ==
    [nodes |-> g.nodes,
     edges |-> g.edges \cup {{row[1].id, row[m + 1].id} : m \in 1..k}]

\* edges between the first k+1 consecutive rows of a renamed line
RECURSIVE AddLineEdges(_, _, _)
AddLineEdges(g, row, k) ==
    IF k = 0 THEN g
    ELSE AddEdge(AddLineEdges(g, row, k - 1), row[k].id, row[k + 1].id)

\* lines 1..n of the input assembled into the graph
RECURSIVE AssembleLines(_, _)
AssembleLines(lines, n) ==
    IF n = 0 THEN EmptyGraph
    ELSE LET g0 == AssembleLines(lines, n - 1)
             g1 == AddLineNodes(g0, lines[n], n - 1, Len(lines[n]))
         IN  AddLineEdges(g1, Renamed(lines[n], n - 1), Len(lines[n]) - 1)

RECURSIVE TotalRows(_, _)
TotalRows(lines, n) ==
    IF n = 0 THEN 0 ELSE TotalRows(lines, n - 1) + Len(lines[n])

Assemble ==
    /\ pc = "part1"
    /\ Lst' = [n \in 1..Len(L) |-> Renamed(L[n], n - 1)]
    /\ G' = AssembleLines(L, Len(L))
    /\ added' = TotalRows(L, Len(L))
    /\ i' = 0
    /\ j' = 1
    /\ pc' = "pairs"
    /\ UNCHANGED <<L, build, graph_, i1, i2, intersection_id, item1_coords,
                   item2_coords, item1_coords_pointID, item2_coords_pointID,
                   xlog>>

\* --------------------------------------------------------------- PART 2
\* faulty variant: the counter set to 0 at the top of the loop over j
CounterPerPair(i_, j_, k) == 0

\* the counter is set to 0 at the top of the loop over i (line 129)
CounterAtPair(i_, j_, k) == IF j_ = i_ + 1 THEN 0 ELSE k

Coords(rows) == [k \in 1..Len(rows) |-> rows[k].p]

PointIDs(rows) == [k \in 1..Len(rows) |-> rows[k].id]

\* the pair after (i_, j_) in the order of the two outer loops
NextPair(i_, j_, n) ==
    IF j_ + 1 <= n - 1 THEN <<i_, j_ + 1>> ELSE <<i_ + 1, i_ + 2>>

StartPair ==
    /\ pc = "pairs"
    /\ i < Len(Lst) - 1
    /\ intersection_id' = CounterAtPair(i, j, intersection_id)
    /\ item1_coords' = Coords(Lst[i + 1])
    /\ item2_coords' = Coords(Lst[j + 1])
    /\ item1_coords_pointID' = PointIDs(Lst[i + 1])
    /\ item2_coords_pointID' = PointIDs(Lst[j + 1])
    /\ IF Len(Lst[i + 1]) - 1 > 0 /\ Len(Lst[j + 1]) - 1 > 0
       THEN /\ pc' = "seg"
            /\ i1' = 0
            /\ i2' = 0
            /\ UNCHANGED <<i, j>>
       ELSE /\ pc' = "pairs"
            /\ i' = NextPair(i, j, Len(Lst))[1]
            /\ j' = NextPair(i, j, Len(Lst))[2]
            /\ UNCHANGED <<i1, i2>>
    /\ UNCHANGED <<L, build, Lst, G, graph_, xlog, added>>

\* the loop variables after the body ran for (i1, i2): the next segment
\* pair of the two range() loops, or the next line pair
Advance ==
    IF i2 + 1 < Len(item2_coords) - 1
    THEN /\ i2' = i2 + 1
         /\ UNCHANGED <<i, j, i1, pc>>
    ELSE IF i1 + 1 < Len(item1_coords) - 1
    THEN /\ i1' = i1 + 1
         /\ i2' = 0
         /\ UNCHANGED <<i, j, pc>>
    ELSE /\ pc' = "pairs"
         /\ i' = NextPair(i, j, Len(Lst))[1]
         /\ j' = NextPair(i, j, Len(Lst))[2]
         /\ UNCHANGED <<i1, i2>>

\* line1.intersection(line2) of the current iteration
Tested ==
    Intersection(item1_coords[i1 + 1], item1_coords[i1 + 2],
                 item2_coords[i2 + 1], item2_coords[i2 + 2], build)

NoCrossing ==
    /\ pc = "seg"
    /\ Tested.kind = "empty"
    /\ Advance
    /\ UNCHANGED <<L, build, Lst, G, graph_, intersection_id, item1_coords,
                   item2_coords, item1_coords_pointID, item2_coords_pointID,
                   xlog, added>>

\* np.insert(arr, pos, row, axis=0), pos counted from 0
Insert(arr, pos, row) ==
    [k \in 1..Len(arr) + 1 |->
        IF k <= pos THEN arr[k]
        ELSE IF k = pos + 1 THEN row
        ELSE arr[k - 1]]

\* faulty variant: the new node joined to the first end point only
SplitOneSide(g, n, u, v) ==
    LET g2 == AddEdge(g, n, u)
    IN  IF HasEdge(g2, u, v) THEN RemoveEdge(g2, u, v) ELSE g2

\* faulty variant: the direct edge u-v left in the graph
SplitKeepDirect(g, n, u, v) == AddEdge(AddEdge(g, n, u), n, v)

\* the new node joined to u and v, and the direct edge u-v removed
Split(g, n, u, v) ==
    LET g2 == AddEdge(AddEdge(g, n, u), n, v)
    IN  IF HasEdge(g2, u, v) THEN RemoveEdge(g2, u, v) ELSE g2

InsertPos(k) == k + 1

\* faulty variant: the counter not incremented
NextCounterStuck(k) == k

NextCounter(k) == k + 1

Materialize ==
    /\ pc = "seg"
    /\ Tested.kind = "point"
    /\ LET n == IntersectNodeId(i, j, intersection_id)
           a == item1_coords_pointID[i1 + 1]
           b == item1_coords_pointID[i1 + 2]
           c == item2_coords_pointID[i2 + 1]
           d == item2_coords_pointID[i2 + 2]
           row == [id |-> n, p |-> Tested.p]
           g1 == AddNode(G, n, Tested.p)
           g2 == Split(g1, n, a, b)
           g3 == Split(g2, n, c, d)
       IN  /\ G' = g3
           /\ Lst' = [Lst EXCEPT
                        ![i + 1] = Insert(Lst[i + 1], InsertPos(i1), row),
                        ![j + 1] = Insert(Lst[j + 1], InsertPos(i2), row)]
           /\ xlog' = Append(xlog,
                        [i |-> i, j |-> j, k |-> intersection_id,
                         id |-> n, p |-> Tested.p, i1 |-> i1, i2 |-> i2,
                         a |-> a, b |-> b, c |-> c, d |-> d,
                         fresh |-> ~HasNode(G, n)])
    /\ intersection_id' = NextCounter(intersection_id)
    /\ added' = added + 1
    /\ Advance
    /\ UNCHANGED <<L, build, graph_, item1_coords, item2_coords,
                   item1_coords_pointID, item2_coords_pointID>>

\* intersection.x of a LineString raises AttributeError (line 154)
RaiseNonPoint ==
    /\ pc = "seg"
    /\ Tested.kind = "line"
    /\ pc' = "error"
    /\ UNCHANGED <<L, build, Lst, G, graph_, i, j, i1, i2, intersection_id,
                   item1_coords, item2_coords, item1_coords_pointID,
                   item2_coords_pointID, xlog, added>>

Finish ==
    /\ pc = "pairs"
    /\ ~(i < Len(Lst) - 1)
    /\ graph_' = G
    /\ pc' = "done"
    /\ UNCHANGED <<L, build, Lst, G, i, j, i1, i2, intersection_id, item1_coords,
                   item2_coords, item1_coords_pointID, item2_coords_pointID,
                   xlog, added>>

Next ==
    \/ Assemble
    \/ StartPair
    \/ NoCrossing
    \/ Materialize
    \/ RaiseNonPoint
    \/ Finish

Spec == Init /\ [][Next]_vars

SpecThree == InitThree /\ [][Next]_vars


\* ============================================================ properties
Assembled == pc \in {"pairs", "seg", "done", "error"}

IsNodes(g) == {n \in DOMAIN g.nodes : n[1] = "is"}

\* the node of row k of input line m (lines and rows counted from 1)
RNode(m, k) == LineNodeId(m - 1, L[m][k].id)

\* the pairs <<s1, s2>> of segments of input lines m and n that meet
Meeting(m, n) ==
    { s \in (1..Len(L[m]) - 1) \X (1..Len(L[n]) - 1) :
        SegIntersection(L[m][s[1]].p, L[m][s[1] + 1].p,
                        L[n][s[2]].p, L[n][s[2] + 1].p) # Empty }

\* the lines taking part in a materialized crossing (numbered from 1)
Involved == {xlog[n].i + 1 : n \in 1..Len(xlog)}
               \cup {xlog[n].j + 1 : n \in 1..Len(xlog)}

\* position of the row with id n in a working sequence (0 if absent)
PosOf(rows, n) ==
    IF \E k \in 1..Len(rows) : rows[k].id = n
    THEN CHOOSE k \in 1..Len(rows) : rows[k].id = n
    ELSE 0

\* ---------------------------------------------------------------- C1
\* two input lines whose segments meet once, in a point that is an end
\* point of neither segment
SingleCrossing ==
    /\ Len(L) = 2
    /\ Cardinality(Meeting(1, 2)) = 1
    /\ LET s == CHOOSE s \in Meeting(1, 2) : TRUE
           r == SegIntersection(L[1][s[1]].p, L[1][s[1] + 1].p,
                                L[2][s[2]].p, L[2][s[2] + 1].p)
       IN  /\ r.kind = "point"
           /\ r.p \notin {L[1][s[1]].p, L[1][s[1] + 1].p,
                          L[2][s[2]].p, L[2][s[2] + 1].p}

\* C1: for two lines crossing once at an interior point P the returned
\* graph has the single intersection node is_0_1_0 at P, of degree 4, joined
\* to the four end points of the two crossed segments; the two direct edges
\* are absent and every other line edge is kept.
C1_SingleCrossing ==
    (pc = "done" /\ SingleCrossing) =>
        LET s == CHOOSE s \in Meeting(1, 2) : TRUE
            P == SegIntersection(L[1][s[1]].p, L[1][s[1] + 1].p,
                                 L[2][s[2]].p, L[2][s[2] + 1].p).p
            n == <<"is", 0, 1, 0>>
        IN  /\ IsNodes(graph_) = {n}
            /\ graph_.nodes[n] = P
            /\ Neighbours(graph_, n) = {RNode(1, s[1]), RNode(1, s[1] + 1),
                                       RNode(2, s[2]), RNode(2, s[2] + 1)}
            /\ Cardinality(Neighbours(graph_, n)) = 4
            /\ \A m \in 1..2 : \A k \in 1..Len(L[m]) - 1 :
                   HasEdge(graph_, RNode(m, k), RNode(m, k + 1)) <=> k # s[m]

C1_Witness == pc = "done" /\ SingleCrossing /\ Len(L[1]) = 3

\* ---------------------------------------------------------------- C2
\* C2: after line assembly, after every crossing and at return, every
\* vertex id of a working sequence is a node of G and every two consecutive
\* vertices of a working sequence are joined by an edge of G.
C2_LockStep ==
    Assembled =>
        \A m \in 1..Len(Lst) :
            /\ \A k \in 1..Len(Lst[m]) : HasNode(G, Lst[m][k].id)
            /\ \A k \in 1..Len(Lst[m]) - 1 :
                   HasEdge(G, Lst[m][k].id, Lst[m][k + 1].id)

\* ---------------------------------------------------------------- C3
\* C3: every segment test of a pair takes the end points of its two
\* segments (coordinates and ids) from the live working sequences of
\* lines i and j.
C3_LiveEndpoints ==
    pc = "seg" =>
        /\ \A k \in {i1 + 1, i1 + 2} :
               /\ item1_coords[k] = Lst[i + 1][k].p
               /\ item1_coords_pointID[k] = Lst[i + 1][k].id
        /\ \A k \in {i2 + 1, i2 + 2} :
               /\ item2_coords[k] = Lst[j + 1][k].p
               /\ item2_coords_pointID[k] = Lst[j + 1][k].id

\* ---------------------------------------------------------------- C4
\* number of crossings logged before entry n for the same pair, and for
\* the same first line
EarlierSamePair(n) ==
    Cardinality({m \in 1..n - 1 : xlog[m].i = xlog[n].i /\ xlog[m].j = xlog[n].j})

EarlierSameFirst(n) ==
    Cardinality({m \in 1..n - 1 : xlog[m].i = xlog[n].i})

\* C4 (as claimed): the k-th crossing discovered for the pair (i, j),
\* k = 0, 1, ..., gets the id is_i_j_k.
C4_PerPairCounter ==
    \A n \in 1..Len(xlog) :
        xlog[n].id = <<"is", xlog[n].i, xlog[n].j, EarlierSamePair(n)>>

\* C4 (amended): a crossing discovered for the pair (i, j) gets the id
\* is_i_j_k where k is the number of crossings discovered before it for all
\* pairs with the same first line i.
C4_PerFirstLineCounter ==
    \A n \in 1..Len(xlog) :
        /\ xlog[n].i < xlog[n].j
        /\ xlog[n].id = <<"is", xlog[n].i, xlog[n].j, EarlierSameFirst(n)>>

C4_Witness ==
    \E n \in 1..Len(xlog) :
        /\ xlog[n].j > xlog[n].i + 1
        /\ EarlierSamePair(n) = 0
        /\ xlog[n].k > 0

\* ---------------------------------------------------------------- C5
\* C5: no add-node overwrites an existing node: every crossing uses an id
\* that is no node yet, the number of nodes is the number of add-node calls,
\* and the returned graph has one node per input vertex and per crossing.
C5_NoCollision ==
    /\ \A n \in 1..Len(xlog) : xlog[n].fresh
    /\ Assembled => Cardinality(DOMAIN G.nodes) = added
    /\ pc = "done" =>
           Cardinality(DOMAIN graph_.nodes) = TotalRows(L, Len(L)) + Len(xlog)

C5_Witness ==
    /\ pc = "done"
    /\ \E m, n \in 1..Len(xlog) :
           m < n /\ xlog[m].i = xlog[n].i /\ xlog[m].j = xlog[n].j
    /\ \E m, n \in 1..Len(xlog) : xlog[m].i = xlog[n].i /\ xlog[m].j # xlog[n].j

\* ---------------------------------------------------------------- C6
\* C6: in the returned graph the nodes of a line that took part in no
\* crossing form a simple path in input order and have no neighbour outside
\* the line; without any crossing there is no intersection node.
C6_UntouchedPath ==
    pc = "done" =>
        /\ \A m \in (1..Len(L)) \ Involved :
               LET own == {RNode(m, k) : k \in 1..Len(L[m])}
               IN  /\ Cardinality(own) = Len(L[m])
                   /\ {e \in graph_.edges : e \cap own # {}}
                        = {{RNode(m, k), RNode(m, k + 1)} : k \in 1..Len(L[m]) - 1}
                   /\ Cardinality({e \in graph_.edges : e \cap own # {}})
                        = Len(L[m]) - 1
        /\ xlog = <<>> => IsNodes(graph_) = {}

C6_Witness ==
    /\ pc = "done"
    /\ xlog # <<>>
    /\ \E m \in (1..Len(L)) \ Involved : Len(L[m]) = 2

\* ---------------------------------------------------------------- C7
\* C7: the direct edges (a, b) and (c, d) of the two segments of a
\* materialized crossing are in the graph in no later state.
C7_NoDirectEdge ==
    \A n \in 1..Len(xlog) :
        /\ ~HasEdge(G, xlog[n].a, xlog[n].b)
        /\ ~HasEdge(G, xlog[n].c, xlog[n].d)

C7_Witness ==
    /\ pc = "done"
    /\ \E m, n \in 1..Len(xlog) : m < n /\ xlog[m].j # xlog[n].j
    /\ \E m, n \in 1..Len(xlog) :
           m < n /\ xlog[m].a = xlog[n].a /\ xlog[m].b = xlog[n].b

\* ---------------------------------------------------------------- C8
\* C8: a segment pair whose intersection is not a point is skipped: no
\* error, no change of the graph or of the working sequences.
C8_SkipsNonPoint ==
    [][ (pc = "seg" /\ Tested.kind = "line") =>
            (pc' # "error" /\ G' = G /\ Lst' = Lst) ]_vars

\* ---------------------------------------------------------------- C9
\* C9: right after a crossing is materialized the new vertex stands
\* between a and b in line i's working sequence and between c and d in
\* line j's.
C9_SplicedBetween ==
    xlog # <<>> =>
        LET e == xlog[Len(xlog)]
            q1 == PosOf(Lst[e.i + 1], e.id)
            q2 == PosOf(Lst[e.j + 1], e.id)
        IN  /\ q1 > 1 /\ q1 < Len(Lst[e.i + 1])
            /\ Lst[e.i + 1][q1 - 1].id = e.a
            /\ Lst[e.i + 1][q1 + 1].id = e.b
            /\ q2 > 1 /\ q2 < Len(Lst[e.j + 1])
            /\ Lst[e.j + 1][q2 - 1].id = e.c
            /\ Lst[e.j + 1][q2 + 1].id = e.d


\* --------------------------------------------------------------- C10
\* no two segments of two different input lines overlap along a stretch
InputPointsOnly ==
    \A m, n \in 1..Len(L) : m < n =>
        \A s1 \in 1..Len(L[m]) - 1 : \A s2 \in 1..Len(L[n]) - 1 :
            SegIntersection(L[m][s1].p, L[m][s1 + 1].p,
                            L[n][s2].p, L[n][s2 + 1].p) # Overlap

\* C10: on input lines whose segment intersections are all empty or single
\* points create_network does not fail.
C10_Completes == InputPointsOnly => pc # "error"

====
